---- MODULE Spec2Model ----
(***************************************************************************)
(* Klippy webhooks (klippy/webhooks.py): the unix-socket API server.       *)
(*                                                                         *)
(* The model follows the classes of the file:                              *)
(*   WebRequest        - request value and its single response slot        *)
(*   ServerSocket      - listener, table of client connections             *)
(*   ClientConnection  - framing of received bytes, deferred requests,     *)
(*                       buffered non-blocking send                        *)
(*   WebHooks          - endpoint table and the built-in handlers          *)
(*   GCodeOutputHelper - gcode output subscription                         *)
(*   StatusHandler     - object catalog, subscriptions, periodic push      *)
(*                                                                         *)
(* Every method is an operator from a program state (the record St) to a   *)
(* program state; an action applies one event-loop callback to the current *)
(* state.  The reactor, the sockets and the printer are the environment.   *)
(***************************************************************************)
EXTENDS Naturals, Sequences, FiniteSets, TLC

(***************************************************************************)
(* Bounds of the model.                                                    *)
(***************************************************************************)
\* connections the listener accepts in one run
MaxConns == 2
\* frames the clients write in all
MaxFrames == 2
\* connections and frames in the framing specification
MaxStreamConns == 1
MaxStreamFrames == 3
\* connections and requests in the subscription specification
MaxSubConns == 1
MaxSubRequests == 2
\* retryable failures of send in the router specification
MaxSendErrors == 1
\* connections and frames in the flush specification
MaxFlushConns == 1
MaxFlushFrames == 2
\* connections and frames in the specification of the flush that ends
MaxLiveConns == 1
MaxLiveFrames == 2
\* connections, requests and pushes to one connection in the push
\* specification
MaxPushConns == 2
MaxPushRequests == 2
MaxPushes == 1
\* messages of the gcode output, to one connection
MaxOutputs == 1

(***************************************************************************)
(* Program constants.                                                      *)
(***************************************************************************)
\* _do_send: retries = 10
RETRIES == 10

(***************************************************************************)
(* JSON values.                                                            *)
(*                                                                         *)
(* A decoded argument map (base_request['args']) is a record               *)
(*   kind  "dict" for a JSON object, "list" for a non-empty JSON array     *)
(*   subs  object name -> list of field names (the entries other than      *)
(*         response_template)                                              *)
(*   has_tmpl, tmpl  the response_template entry, a dict key -> number     *)
(***************************************************************************)
EmptyDict == [x \in {} |-> 0]

Args(kind, subs, has_tmpl, tmpl) ==
    [kind |-> kind, subs |-> subs, has_tmpl |-> has_tmpl, tmpl |-> tmpl]

\* {}
ArgsNone == Args("dict", EmptyDict, FALSE, EmptyDict)
\* [1]
ArgsList == Args("list", EmptyDict, FALSE, EmptyDict)

\* Python truth value of an argument map: "not args" is true of {} only
Truthy(args) ==
    \/ args.kind = "list"
    \/ DOMAIN args.subs # {}
    \/ args.has_tmpl

\* the keys of an argument map
ArgKeys(args) ==
    DOMAIN args.subs \cup (IF args.has_tmpl THEN {"response_template"} ELSE {})


(***************************************************************************)
(* The printer (environment): its objects with a get_status method and the *)
(* keys their status has.  Objects are added while the configuration is    *)
(* read, before the socket carries traffic, and stay the same afterwards.  *)
(* The object webhooks is the one add_early_printer_objects adds; its       *)
(* status is that of WebHooks.get_status.                                  *)
(***************************************************************************)
PrinterObjects ==
    [toolhead |-> <<"position", "speed">>, fan |-> <<"speed">>,
     webhooks |-> <<"state", "state_message">>]

\* set(list)
SetOfList(l) == {l[i] : i \in DOMAIN l}

\* the orders in which a set or a dict with the elements S is iterated
Orders(S) ==
    {o \in [1..Cardinality(S) -> S] :
        \A i, j \in DOMAIN o : i # j => o[i] # o[j]}

\* list(set(...)): the elements of S, each once, in the order the build
\* iterates this set.  The order is no function of the elements: it is
\* order, one of the orders of the names S is drawn from.
ListOfSet(S, order) == SelectSeq(order, LAMBDA f: f \in S)

\* the choices the build has when one request is merged: for every object
\* of the printer an order of the fields of its status.  add_subscripton
\* builds lists from sets of valid fields of one object only.
SetOrders ==
    {[toolhead |-> t, fan |-> f, webhooks |-> w] :
        t \in Orders(SetOfList(PrinterObjects.toolhead)),
        f \in Orders(SetOfList(PrinterObjects.fan)),
        w \in Orders(SetOfList(PrinterObjects.webhooks))}

(***************************************************************************)
(* Responses.  WebRequest.response is None, the literal "ok", the dict of  *)
(* WebRequestError.to_dict, or the value a handler sent.                   *)
(***************************************************************************)
Resp(t, message, endpoints, objects, info) ==
    [t |-> t, message |-> message, endpoints |-> endpoints,
     objects |-> objects, info |-> info]

None == Resp("None", "", {}, EmptyDict, "")
Ok == Resp("ok", "", {}, EmptyDict, "")
Value(endpoints, objects, info) == Resp("value", "", endpoints, objects, info)

\* WebRequestError(message).to_dict()
to_dict(message) == Resp("WebRequestError", message, {}, EmptyDict, "")

(***************************************************************************)
(* Received bytes.  A unit of received text is the terminator 0x03, one    *)
(* member of a JSON object ("id": n, "path": PathTable[n], ...) or text    *)
(* that is no JSON; a frame <<m1, .., mk>> stands for the text             *)
(* {m1, .., mk}, and the empty frame for the empty text.                   *)
(***************************************************************************)
Byte(k, n) == [k |-> k, n |-> n]
ETX == Byte("ETX", 0)
Junk == Byte("junk", 0)

PathTable ==
    <<"list_endpoints", "info", "emergency_stop", "objects/list",
      "objects/status", "objects/subscription", "objects/list_subscription",
      "subscribe_gcode_output", "no/such/path">>

PathIndex(path) == CHOOSE i \in DOMAIN PathTable : PathTable[i] = path

\* the argument maps clients send
ArgsTable ==
    <<ArgsNone,
      ArgsList,
      Args("dict", [toolhead |-> <<>>], TRUE, [id |-> 5]),
      Args("dict", [toolhead |-> <<"position">>], FALSE, EmptyDict),
      Args("dict", [toolhead |-> <<"speed", "temp">>, fan |-> <<"temp">>],
           FALSE, EmptyDict),
      Args("dict", [fan |-> <<"speed">>, extruder |-> <<"temp">>],
           TRUE, EmptyDict),
      Args("dict", [toolhead |-> <<"position", "speed">>], FALSE, EmptyDict),
      Args("dict", [toolhead |-> <<"temp">>, fan |-> <<>>], FALSE, EmptyDict),
      Args("dict", EmptyDict, TRUE, [id |-> 7]),
      Args("dict", [webhooks |-> <<"state">>], FALSE, EmptyDict)>>

ArgsIndex(args) == CHOOSE i \in DOMAIN ArgsTable : ArgsTable[i] = args

\* the text of a request object with the keys id / path / args
Frame(id, path, args) ==
    <<Byte("id", id), Byte("path", PathIndex(path)),
      Byte("args", ArgsIndex(args))>>

\* the text of a request object with the keys id / method / params
MethodFrame(id, path, args) ==
    <<Byte("id", id), Byte("method", PathIndex(path)),
      Byte("params", ArgsIndex(args))>>

Max(S) == CHOOSE x \in S : \A y \in S : y <= x

\* json.loads: fails on the empty text and on text that is no JSON; of a
\* repeated key the last member stays.  byteify changes the type of the
\* strings, not their value.
json_loads_byteified(data) ==
    IF data = <<>> \/ \E i \in DOMAIN data : data[i].k \in {"junk", "ETX"}
    THEN [ok |-> FALSE, obj |-> EmptyDict]
    ELSE [ok |-> TRUE,
          obj |-> [key \in {data[i].k : i \in DOMAIN data} |->
                     data[Max({i \in DOMAIN data : data[i].k = key})].n]]

(***************************************************************************)
(* class WebRequest                                                        *)
(***************************************************************************)
\* WebRequest.__init__: KeyError (ok = FALSE) when a key is missing
WebRequest(client_conn, base_request) ==
    IF {"id", "path", "args"} \subseteq DOMAIN base_request
    THEN [ok |-> TRUE, client_conn |-> client_conn,
          id |-> base_request["id"],
          path |-> PathTable[base_request["path"]],
          args |-> ArgsTable[base_request["args"]],
          response |-> None]
    ELSE [ok |-> FALSE, client_conn |-> client_conn, id |-> 0, path |-> "",
          args |-> ArgsNone, response |-> None]

\* WebRequest.set_error
set_error(wr, message) == [wr EXCEPT !.response = to_dict(message)]

\* finish without the default: the response slot as it is
finish_without_default(wr) ==
    [request_id |-> wr.id, response |-> wr.response]

\* WebRequest.finish: the response, "ok" when none was set
finish(wr) ==
    [request_id |-> wr.id,
     response |-> IF wr.response = None THEN Ok ELSE wr.response]

(***************************************************************************)
(* Sent bytes.  A unit of sent text is the terminator 0x03 or one half of  *)
(* the text json.dumps gives for a message.                                *)
(***************************************************************************)
Msg(method, tmpl, pkey, request_id, response) ==
    [method |-> method, tmpl |-> tmpl, pkey |-> pkey,
     request_id |-> request_id, response |-> response]

NoMsg == Msg("", EmptyDict, "", 0, None)

OutETX == [b |-> "ETX", m |-> NoMsg]

json_dumps(data) == <<[b |-> "head", m |-> data], [b |-> "tail", m |-> data]>>


(***************************************************************************)
(* The program state.                                                      *)
(***************************************************************************)
VARIABLES
    \* ServerSocket: the listening socket is registered; uid -> client
    listening, clients,
    \* ClientConnection objects, uid -> [fd_handle, partial_data,
    \* send_buffer, is_sending_data]
    conn,
    \* the activation of _do_send of a connection: [pc, retries]
    do_send,
    \* reactor: the callbacks registered with register_callback, oldest first
    callbacks,
    \* the client sockets (environment), uid -> [inbox: bytes the peer wrote
    \* and recv has not returned yet, eof: the peer closed, sent: bytes
    \* sock.send accepted, errors: the retryable failures of sock.send,
    \* streak: those since it last accepted bytes, unregistered / closed:
    \* calls of unregister_fd and sock.close]
    sock,
    \* WebHooks._endpoints (its keys; each path has the one handler below)
    endpoints,
    \* printer.invoke_shutdown: the messages it was called with
    shutdown_msgs,
    \* GCodeOutputHelper
    gcode_clients, is_registered,
    \* StatusHandler (status_clients is StatusHandler.clients)
    ready, timer_started, subscription_timer, available_objects,
    subscriptions, status_clients,
    \* history, uid -> [received: the bytes recv returned, reads: the reads
    \* that returned bytes, frames: the requests logged as received,
    \* enqueued: the bytes send() appended, late_sends: the calls of send()
    \* while _do_send was in reactor.pause, handled: the requests
    \* _process_request ran with what the handler raised and the response it
    \* set, closes: the calls of close(), before_listener: the listening
    \* socket was registered when close() closed the connection]
    hist

vars ==
    <<listening, clients, conn, do_send, callbacks, sock, endpoints,
      shutdown_msgs, gcode_clients, is_registered, ready, timer_started,
      subscription_timer, available_objects, subscriptions, status_clients,
      hist>>

\* the current state as one record
St ==
    [listening |-> listening, clients |-> clients, conn |-> conn,
     do_send |-> do_send, callbacks |-> callbacks, sock |-> sock,
     endpoints |-> endpoints, shutdown_msgs |-> shutdown_msgs,
     gcode_clients |-> gcode_clients, is_registered |-> is_registered,
     ready |-> ready, timer_started |-> timer_started,
     subscription_timer |-> subscription_timer,
     available_objects |-> available_objects,
     subscriptions |-> subscriptions, status_clients |-> status_clients,
     hist |-> hist]

\* the next state is s
Becomes(s) ==
    /\ listening' = s.listening
    /\ clients' = s.clients
    /\ conn' = s.conn
    /\ do_send' = s.do_send
    /\ callbacks' = s.callbacks
    /\ sock' = s.sock
    /\ endpoints' = s.endpoints
    /\ shutdown_msgs' = s.shutdown_msgs
    /\ gcode_clients' = s.gcode_clients
    /\ is_registered' = s.is_registered
    /\ ready' = s.ready
    /\ timer_started' = s.timer_started
    /\ subscription_timer' = s.subscription_timer
    /\ available_objects' = s.available_objects
    /\ subscriptions' = s.subscriptions
    /\ status_clients' = s.status_clients
    /\ hist' = s.hist

\* the connections constructed so far
Conns == DOMAIN conn

NoRequest == WebRequest(0, EmptyDict)

\* reactor.register_callback
register_callback(s, cb, c, wr) ==
    [s EXCEPT !.callbacks = Append(@, [cb |-> cb, conn |-> c, wr |-> wr])]

\* printer.invoke_shutdown
invoke_shutdown(s, msg) ==
    [s EXCEPT !.shutdown_msgs = Append(@, msg)]

(***************************************************************************)
(* class ClientConnection                                                  *)
(***************************************************************************)
\* ClientConnection.is_closed
is_closed(s, c) == s.conn[c].fd_handle = "None"

\* ServerSocket.pop_client
pop_client(s, client_id) == [s EXCEPT !.clients = @ \ {client_id}]

\* close without the test of fd_handle
close_unguarded(s, c) ==
    pop_client(
        [s EXCEPT !.hist[c].closes = @ + 1,
                  !.hist[c].before_listener = s.listening,
                  !.sock[c].unregistered = @ + 1,
                  !.conn[c].fd_handle = "None",
                  !.sock[c].closed = @ + 1], c)

\* ClientConnection.close
close(s, c) ==
    LET s0 == [s EXCEPT !.hist[c].closes = @ + 1]
    IN  IF s0.conn[c].fd_handle # "None"
        THEN pop_client(
                 [s0 EXCEPT !.hist[c].before_listener = s.listening,
                            !.sock[c].unregistered = @ + 1,
                            !.conn[c].fd_handle = "None",
                            !.sock[c].closed = @ + 1], c)
        ELSE s0

\* send registering a flush at every call
send_always_schedules(s, c, data) ==
    LET text == json_dumps(data) \o <<OutETX>>
        s1 == [s EXCEPT !.conn[c].send_buffer = @ \o text,
                        !.hist[c].enqueued = @ \o text,
                        !.hist[c].late_sends =
                            IF s.do_send[c].pc = "paused" THEN @ + 1 ELSE @]
    IN  register_callback(
            [s1 EXCEPT !.conn[c].is_sending_data = TRUE],
            "_do_send", c, NoRequest)

\* ClientConnection.send
send(s, c, data) ==
    LET text == json_dumps(data) \o <<OutETX>>
        s1 == [s EXCEPT !.conn[c].send_buffer = @ \o text,
                        !.hist[c].enqueued = @ \o text,
                        !.hist[c].late_sends =
                            IF s.do_send[c].pc = "paused" THEN @ + 1 ELSE @]
    IN  IF ~s1.conn[c].is_sending_data
        THEN register_callback(
                 [s1 EXCEPT !.conn[c].is_sending_data = TRUE],
                 "_do_send", c, NoRequest)
        ELSE s1

\* data.split('\x03'): the segments between the terminators, one more than
\* there are terminators
RECURSIVE split(_)
split(data) ==
    IF \A i \in DOMAIN data : data[i] # ETX
    THEN <<data>>
    ELSE LET i == CHOOSE j \in DOMAIN data :
                      data[j] = ETX /\ \A k \in 1..(j - 1) : data[k] # ETX
         IN  <<SubSeq(data, 1, i - 1)>>
                 \o split(SubSeq(data, i + 1, Len(data)))

\* the body of the loop of process_received, for one request text
receive_request(s, c, req) ==
    LET s1 == [s EXCEPT !.hist[c].frames = Append(@, req)]
        js == json_loads_byteified(req)
        web_request == WebRequest(c, js.obj)
    IN  IF js.ok /\ web_request.ok
        THEN register_callback(s1, "_process_request", c, web_request)
        ELSE s1

\* the loop left at the first request that fails to decode
RECURSIVE receive_requests_break(_, _, _)
receive_requests_break(s, c, requests) ==
    IF requests = <<>>
    THEN s
    ELSE LET s1 == receive_request(s, c, Head(requests))
         IN  IF s1.callbacks = s.callbacks
             THEN s1
             ELSE receive_requests_break(s1, c, Tail(requests))

RECURSIVE receive_requests(_, _, _)
receive_requests(s, c, requests) ==
    IF requests = <<>>
    THEN s
    ELSE receive_requests(receive_request(s, c, Head(requests)), c,
                          Tail(requests))

\* process_received without the bytes kept from the read before
process_received_drops_partial(s, c, data, err) ==
    IF err \notin {"", "EBADF"}
    THEN s
    ELSE IF err = "EBADF" \/ data = <<>>
    THEN close(s, c)
    ELSE LET requests == split(data)
             s1 == [s EXCEPT !.conn[c].partial_data =
                                 requests[Len(requests)],
                             !.hist[c].reads = @ + 1]
         IN  receive_requests(s1, c, SubSeq(requests, 1, Len(requests) - 1))

\* ClientConnection.process_received, recv having returned data ("" at the
\* end of the stream) or raised err
process_received(s, c, data, err) ==
    IF err \notin {"", "EBADF"}
    THEN s
    ELSE IF err = "EBADF" \/ data = <<>>
    THEN close(s, c)
    ELSE LET segs == split(data)
             requests == [segs EXCEPT ![1] = s.conn[c].partial_data \o @]
             s1 == [s EXCEPT !.conn[c].partial_data =
                                 requests[Len(requests)],
                             !.hist[c].reads = @ + 1]
         IN  receive_requests(s1, c, SubSeq(requests, 1, Len(requests) - 1))


(***************************************************************************)
(* Handlers.  A handler gives the state it leaves, the request with the    *)
(* response it set, and the exception it raised: "" for none,              *)
(* "CommandError" for homing.CommandError and its subclass                 *)
(* WebRequestError, "Exception" for any other.                             *)
(***************************************************************************)
Return(s, wr) == [s |-> s, wr |-> wr, exc |-> "", message |-> ""]
Raise(s, wr, exc, message) ==
    [s |-> s, wr |-> wr, exc |-> exc, message |-> message]

\* WebRequest.send
request_send(s, wr, data) ==
    IF wr.response # None
    THEN Raise(s, wr, "CommandError", "Multiple calls to send not allowed")
    ELSE Return(s, [wr EXCEPT !.response = data])

\* WebRequest.get('response_template', {})
get_response_template(wr) ==
    IF wr.args.has_tmpl THEN wr.args.tmpl ELSE EmptyDict

\* WebHooks._handle_list_endpoints
_handle_list_endpoints(s, wr) ==
    request_send(s, wr, Value(s.endpoints, EmptyDict, ""))

\* WebHooks._handle_info_request
_handle_info_request(s, wr) ==
    request_send(s, wr, Value({}, EmptyDict, "info"))

\* WebHooks._handle_estop_request
_handle_estop_request(s, wr) ==
    Return(invoke_shutdown(s, "Shutdown due to webhooks request"), wr)

\* GCodeOutputHelper._handle_subscribe_gcode_output
_handle_subscribe_gcode_output(s, wr) ==
    LET cconn == wr.client_conn
        template == get_response_template(wr)
    IN  Return([s EXCEPT !.gcode_clients =
                            [c \in DOMAIN @ \cup {cconn} |->
                                IF c = cconn THEN template ELSE @[c]],
                         !.is_registered = TRUE], wr)

\* the loop of _gcode_callback over list(self.clients.items()), order the
\* order in which the build iterates the dict
RECURSIVE push_output(_, _, _)
push_output(s, order, msg) ==
    IF order = <<>>
    THEN s
    ELSE LET cconn == Head(order)
             template == s.gcode_clients[cconn]
             s1 == IF is_closed(s, cconn)
                   THEN [s EXCEPT !.gcode_clients =
                                     [c \in DOMAIN @ \ {cconn} |-> @[c]]]
                   ELSE send(s, cconn,
                             Msg("", template, "response", 0,
                                 Value({}, EmptyDict, msg)))
         IN  push_output(s1, Tail(order), msg)

\* GCodeOutputHelper._gcode_callback
_gcode_callback(s, order, msg) == push_output(s, order, msg)

(***************************************************************************)
(* class StatusHandler                                                     *)
(***************************************************************************)
\* StatusHandler._handle_ready
_handle_ready(s) ==
    [s EXCEPT !.available_objects =
                  [name \in DOMAIN PrinterObjects |-> PrinterObjects[name]],
              !.ready = TRUE]

\* StatusHandler._handle_restart
_handle_restart(s) ==
    [s EXCEPT !.ready = FALSE, !.subscription_timer = "NEVER"]

\* StatusHandler._process_status_request, requested_objects a dict
_process_status_request(s, requested_objects) ==
    IF s.ready
    THEN Value({},
               [name \in {n \in DOMAIN requested_objects :
                             /\ n \in DOMAIN PrinterObjects
                             /\ n \in DOMAIN s.available_objects} |->
                   IF requested_objects[name] = <<>>
                   THEN PrinterObjects[name]
                   ELSE SelectSeq(PrinterObjects[name],
                                  LAMBDA k:
                                      k \in SetOfList(
                                                requested_objects[name]))],
               "")
    ELSE Value({}, EmptyDict, "Klippy Not Ready")

\* StatusHandler._handle_object_request
_handle_object_request(s, wr) ==
    request_send(s, wr, Value({}, s.available_objects, ""))

\* StatusHandler._handle_status_request; a list has no items()
_handle_status_request(s, wr) ==
    IF s.ready /\ wr.args.kind # "dict"
    THEN Raise(s, wr, "Exception", "'list' object has no attribute 'items'")
    ELSE request_send(s, wr, _process_status_request(s, wr.args.subs))

\* StatusHandler._handle_list_subscription_request
_handle_list_subscription_request(s, wr) ==
    request_send(s, wr, Value({}, s.subscriptions, ""))

\* the merge without the test of the existing entry for the empty list
merge_items_narrows(avail, has_existing, existing_items, requested, order) ==
    LET invalid_items == SetOfList(requested) \ SetOfList(avail)
        filtered == requested # <<>> /\ invalid_items # {}
        req_items == IF filtered
                     THEN ListOfSet(SetOfList(requested) \ invalid_items,
                                    order)
                     ELSE requested
    IN  IF filtered /\ req_items = <<>>
        THEN [skip |-> TRUE, items |-> <<>>]
        ELSE [skip |-> FALSE,
              items |-> IF has_existing
                        THEN IF req_items = <<>>
                             THEN <<>>
                             ELSE ListOfSet(SetOfList(req_items)
                                             \cup SetOfList(existing_items),
                                            order)
                        ELSE req_items]

\* the merge without the `continue` when no valid item remains
merge_items_keeps_empty(avail, has_existing, existing_items, requested, order) ==
    LET invalid_items == SetOfList(requested) \ SetOfList(avail)
        filtered == requested # <<>> /\ invalid_items # {}
        req_items == IF filtered
                     THEN ListOfSet(SetOfList(requested) \ invalid_items,
                                    order)
                     ELSE requested
    IN  [skip |-> FALSE,
         items |-> IF has_existing
                   THEN IF req_items = <<>> \/ existing_items = <<>>
                        THEN <<>>
                        ELSE ListOfSet(SetOfList(req_items)
                                        \cup SetOfList(existing_items),
                                            order)
                   ELSE req_items]

\* add_subscripton, the body of its loop for one object of the catalog:
\* skip for `continue`, else the items stored
merge_items(avail, has_existing, existing_items, requested, order) ==
    LET invalid_items == SetOfList(requested) \ SetOfList(avail)
        filtered == requested # <<>> /\ invalid_items # {}
        req_items == IF filtered
                     THEN ListOfSet(SetOfList(requested) \ invalid_items,
                                    order)
                     ELSE requested
    IN  IF filtered /\ req_items = <<>>
        THEN [skip |-> TRUE, items |-> <<>>]
        ELSE [skip |-> FALSE,
              items |-> IF has_existing
                        THEN IF req_items = <<>> \/ existing_items = <<>>
                             THEN <<>>
                             ELSE ListOfSet(SetOfList(req_items)
                                             \cup SetOfList(existing_items),
                                            order)
                        ELSE req_items]

\* the loop storing the items of the request whatever the table holds
merge_table_replaces(available, table, new_sub, set_order) ==
    LET names == {n \in DOMAIN new_sub : n \in DOMAIN available}
        m(n) == merge_items(available[n], FALSE, <<>>, new_sub[n],
                            set_order[n])
        kept == {n \in names : ~m(n).skip}
    IN  [n \in DOMAIN table \cup kept |->
            IF n \in kept THEN m(n).items ELSE table[n]]

\* the subscription table after the loop of add_subscripton.  The key
\* response_template is no object of the printer and is skipped like every
\* name that is not in the catalog.
merge_table(available, table, new_sub, set_order) ==
    LET names == {n \in DOMAIN new_sub : n \in DOMAIN available}
        m(n) == merge_items(available[n], n \in DOMAIN table,
                            IF n \in DOMAIN table THEN table[n] ELSE <<>>,
                            new_sub[n], set_order[n])
        kept == {n \in names : ~m(n).skip}
    IN  [n \in DOMAIN table \cup kept |->
            IF n \in kept THEN m(n).items ELSE table[n]]

\* StatusHandler.add_subscripton, new_sub a dict, set_order the orders in
\* which the build iterates the sets of this call
add_subscripton(s, new_sub, set_order) ==
    IF ~Truthy(new_sub)
    THEN s
    ELSE LET s1 == [s EXCEPT !.subscriptions =
                        merge_table(s.available_objects, @, new_sub.subs,
                                    set_order)]
         IN  IF ~s1.timer_started
             THEN [s1 EXCEPT !.subscription_timer = "NOW",
                             !.timer_started = TRUE]
             ELSE s1

\* StatusHandler._handle_subscription_request; a list has no items()
_handle_subscription_request(s, wr, set_order) ==
    IF ~Truthy(wr.args)
    THEN Raise(s, wr, "CommandError", "Invalid argument")
    ELSE IF wr.args.kind # "dict"
    THEN Raise(s, wr, "Exception", "'list' object has no attribute 'items'")
    ELSE LET s1 == add_subscripton(s, wr.args, set_order)
             cconn == wr.client_conn
             template == get_response_template(wr)
         IN  Return([s1 EXCEPT !.status_clients =
                                  [c \in DOMAIN @ \cup {cconn} |->
                                      IF c = cconn THEN template ELSE @[c]]],
                    wr)

\* the loop sending to the closed connections as well
RECURSIVE push_status_to_closed(_, _, _)
push_status_to_closed(s, order, status) ==
    IF order = <<>>
    THEN s
    ELSE LET cconn == Head(order)
             template == s.status_clients[cconn]
             s1 == send(s, cconn, Msg("", template, "status", 0, status))
         IN  push_status_to_closed(s1, Tail(order), status)

\* the loop of _batch_subscription_handler over list(self.clients.items()),
\* order the order in which the build iterates the dict
RECURSIVE push_status(_, _, _)
push_status(s, order, status) ==
    IF order = <<>>
    THEN s
    ELSE LET cconn == Head(order)
             template == s.status_clients[cconn]
             s1 == IF is_closed(s, cconn)
                   THEN [s EXCEPT !.status_clients =
                                     [c \in DOMAIN @ \ {cconn} |-> @[c]]]
                   ELSE send(s, cconn, Msg("", template, "status", 0, status))
         IN  push_status(s1, Tail(order), status)

\* StatusHandler._batch_subscription_handler; the time it returns is the
\* next time of the timer
_batch_subscription_handler(s, order) ==
    LET status == _process_status_request(s, s.subscriptions)
    IN  [push_status(s, order, status) EXCEPT !.subscription_timer = "LATER"]

(***************************************************************************)
(* class WebHooks: dispatch                                                *)
(***************************************************************************)
\* the paths registered by WebHooks.__init__, GCodeOutputHelper.__init__
\* and StatusHandler.__init__
RegisteredPaths ==
    {"list_endpoints", "info", "emergency_stop", "subscribe_gcode_output",
     "objects/list", "objects/status", "objects/subscription",
     "objects/list_subscription"}

\* the callback registered for a path, called with the request
call_endpoint(s, wr, set_order) ==
    CASE wr.path = "list_endpoints" -> _handle_list_endpoints(s, wr)
      [] wr.path = "info" -> _handle_info_request(s, wr)
      [] wr.path = "emergency_stop" -> _handle_estop_request(s, wr)
      [] wr.path = "subscribe_gcode_output" ->
             _handle_subscribe_gcode_output(s, wr)
      [] wr.path = "objects/list" -> _handle_object_request(s, wr)
      [] wr.path = "objects/status" -> _handle_status_request(s, wr)
      [] wr.path = "objects/subscription" ->
             _handle_subscription_request(s, wr, set_order)
      [] wr.path = "objects/list_subscription" ->
             _handle_list_subscription_request(s, wr)

\* get_callback raising an error that is no command error
get_callback_fatal(s, wr, set_order) ==
    IF wr.path \notin s.endpoints
    THEN Raise(s, wr, "Exception", "No registered callback for path")
    ELSE call_endpoint(s, wr, set_order)

\* WebHooks.get_callback followed by the call of the callback
get_callback(s, wr, set_order) ==
    IF wr.path \notin s.endpoints
    THEN Raise(s, wr, "CommandError", "No registered callback for path")
    ELSE call_endpoint(s, wr, set_order)

\* _process_request with one except clause for every error
_process_request_one_clause(s, c, web_request, set_order) ==
    LET r == get_callback(s, web_request, set_order)
        wr == IF r.exc = "" THEN r.wr ELSE set_error(r.wr, r.message)
        s1 == IF r.exc # ""
              THEN invoke_shutdown(r.s, "Internal Error on WebRequest")
              ELSE r.s
        result == finish(wr)
        s2 == [s1 EXCEPT !.hist[c].handled =
                            Append(@, [wr |-> web_request, exc |-> r.exc,
                                       response |-> r.wr.response])]
    IN  send(s2, c, Msg("response", EmptyDict, "result", result.request_id,
                        result.response))

\* ClientConnection._process_request
_process_request(s, c, web_request, set_order) ==
    LET r == get_callback(s, web_request, set_order)
        wr == IF r.exc = "" THEN r.wr ELSE set_error(r.wr, r.message)
        s1 == IF r.exc = "Exception"
              THEN invoke_shutdown(r.s, "Internal Error on WebRequest")
              ELSE r.s
        result == finish(wr)
        s2 == [s1 EXCEPT !.hist[c].handled =
                            Append(@, [wr |-> web_request, exc |-> r.exc,
                                       response |-> r.wr.response])]
    IN  send(s2, c, Msg("response", EmptyDict, "result", result.request_id,
                        result.response))


(***************************************************************************)
(* class ServerSocket                                                      *)
(***************************************************************************)
\* ClientConnection.__init__ and the socket accept() returned
new_connection(s, c) ==
    [s EXCEPT
       !.conn = (c :> [fd_handle |-> "fd", partial_data |-> <<>>,
                       send_buffer |-> <<>>, is_sending_data |-> FALSE]) @@ @,
       !.do_send = (c :> [pc |-> "idle", retries |-> RETRIES]) @@ @,
       !.sock = (c :> [inbox |-> <<>>, eof |-> FALSE, sent |-> <<>>,
                       errors |-> 0, streak |-> 0, unregistered |-> 0,
                       closed |-> 0]) @@ @,
       !.hist = (c :> [received |-> <<>>, reads |-> 0, frames |-> <<>>,
                       enqueued |-> <<>>, late_sends |-> 0,
                       handled |-> <<>>, closes |-> 0,
                       before_listener |-> FALSE]) @@ @]

\* ServerSocket._handle_accept, accept() having returned a socket
_handle_accept(s, c) ==
    [new_connection(s, c) EXCEPT !.clients = @ \cup {c}]

\* the loop closing the first client only
close_all_first(s, cs) ==
    IF cs = {}
    THEN s
    ELSE close(s, CHOOSE x \in cs : \A y \in cs : x <= y)

\* the loop of _handle_disconnect over list(self.clients.values())
RECURSIVE close_all(_, _)
close_all(s, cs) ==
    IF cs = {}
    THEN s
    ELSE LET c == CHOOSE x \in cs : \A y \in cs : x <= y
         IN  close_all(close(s, c), cs \ {c})

\* ServerSocket._handle_disconnect
_handle_disconnect(s) ==
    [close_all(s, s.clients) EXCEPT !.listening = FALSE]

(***************************************************************************)
(* Init: the state after add_early_printer_objects, the server enabled.    *)
(***************************************************************************)
Init ==
    /\ listening = TRUE
    /\ clients = {}
    /\ conn = EmptyDict
    /\ do_send = EmptyDict
    /\ callbacks = <<>>
    /\ sock = EmptyDict
    /\ endpoints = RegisteredPaths
    /\ shutdown_msgs = <<>>
    /\ gcode_clients = EmptyDict
    /\ is_registered = FALSE
    /\ ready = FALSE
    /\ timer_started = FALSE
    /\ subscription_timer = "NEVER"
    /\ available_objects = EmptyDict
    /\ subscriptions = EmptyDict
    /\ status_clients = EmptyDict
    /\ hist = EmptyDict

(***************************************************************************)
(* Actions: one callback of the event loop each.  While an activation of   *)
(* _do_send is between two passes of its loop no other callback runs; it   *)
(* gives way to the others only in reactor.pause.                          *)
(***************************************************************************)
Idle == \A c \in Conns : do_send[c].pc # "running"

\* the frames the peer of c has written
Written(c) ==
    Len(SelectSeq(hist[c].received \o sock[c].inbox, LAMBDA b: b = ETX))

RECURSIVE Sum(_, _)
Sum(f, S) ==
    IF S = {}
    THEN 0
    ELSE LET x == CHOOSE y \in S : TRUE IN f[x] + Sum(f, S \ {x})

\* the frames the peers have written in all
TotalWritten == Sum([c \in Conns |-> Written(c)], Conns)

\* the retryable failures send has raised in all
TotalErrors == Sum([c \in Conns |-> sock[c].errors], Conns)

\* the listening socket is readable
Accept(max) ==
    /\ Idle
    /\ listening
    /\ Cardinality(Conns) < max
    /\ Becomes(_handle_accept(St, Cardinality(Conns) + 1))

\* the peer writes one frame and its terminator (environment)
ClientWrite(c, frame, max) ==
    /\ Idle
    /\ sock[c].closed = 0
    /\ ~sock[c].eof
    /\ TotalWritten < max
    /\ sock' = [sock EXCEPT ![c].inbox = @ \o frame \o <<ETX>>]
    /\ UNCHANGED <<listening, clients, conn, do_send, callbacks, endpoints,
                   shutdown_msgs, gcode_clients, is_registered, ready,
                   timer_started, subscription_timer, available_objects,
                   subscriptions, status_clients, hist>>

\* the peer closes its end (environment)
ClientClose(c) ==
    /\ Idle
    /\ sock[c].closed = 0
    /\ ~sock[c].eof
    /\ sock' = [sock EXCEPT ![c].eof = TRUE]
    /\ UNCHANGED <<listening, clients, conn, do_send, callbacks, endpoints,
                   shutdown_msgs, gcode_clients, is_registered, ready,
                   timer_started, subscription_timer, available_objects,
                   subscriptions, status_clients, hist>>

\* the socket of c is readable: recv returns the first n bytes of the inbox,
\* or "" at the end of the stream
ProcessReceived(c, n) ==
    /\ Idle
    /\ conn[c].fd_handle = "fd"
    /\ \/ n \in 1..Len(sock[c].inbox)
       \/ n = 0 /\ sock[c].inbox = <<>> /\ sock[c].eof
    /\ LET data == SubSeq(sock[c].inbox, 1, n)
           s == [St EXCEPT
                   !.sock[c].inbox = SubSeq(@, n + 1, Len(@)),
                   !.hist[c].received = @ \o data]
       IN  Becomes(process_received(s, c, data, ""))

\* the socket of c is readable and recv raises an error other than EBADF
ProcessReceivedError(c) ==
    /\ Idle
    /\ conn[c].fd_handle = "fd"
    /\ Becomes(process_received(St, c, <<>>, "ECONNRESET"))

\* the reactor runs the oldest callback, a deferred request; the build
\* iterates the sets of the call in the orders set_order
ProcessRequest ==
    /\ Idle
    /\ callbacks # <<>>
    /\ Head(callbacks).cb = "_process_request"
    /\ \E set_order \in SetOrders :
           LET cb == Head(callbacks)
               s == [St EXCEPT !.callbacks = Tail(@)]
           IN  Becomes(_process_request(s, cb.conn, cb.wr, set_order))

\* the host shuts down: the event klippy:disconnect
Disconnect ==
    /\ Idle
    /\ listening
    /\ Becomes(_handle_disconnect(St))

\* the event klippy:ready
Ready ==
    /\ Idle
    /\ ~ready
    /\ Becomes(_handle_ready(St))

\* the event gcode:request_restart
Restart ==
    /\ Idle
    /\ ready
    /\ Becomes(_handle_restart(St))

\* the status messages enqueued for c
Pushed(c) ==
    Len(SelectSeq(hist[c].enqueued,
                  LAMBDA b: b.b = "head" /\ b.m.pkey = "status"))

\* the messages of the gcode output enqueued for c
Outputs(c) ==
    Len(SelectSeq(hist[c].enqueued,
                  LAMBDA b: b.b = "head" /\ b.m.pkey = "response"))

\* the gcode module has output and calls the handler registered with it
GcodeOutput(order, msg, max) ==
    /\ Idle
    /\ is_registered
    /\ \A c \in Conns : Outputs(c) < max
    /\ Becomes(_gcode_callback(St, order, msg))

\* the reactor runs the subscription timer
Tick(order, max) ==
    /\ Idle
    /\ subscription_timer # "NEVER"
    /\ \A c \in Conns : Pushed(c) < max
    /\ Becomes(_batch_subscription_handler(St, order))


\* _do_send dropping the whole buffer after a send
_do_send_drops_buffer(s, c, sent, err) ==
    IF s.conn[c].send_buffer = <<>>
    THEN [s EXCEPT !.conn[c].is_sending_data = FALSE,
                   !.do_send[c] = [pc |-> "idle", retries |-> RETRIES]]
    ELSE IF err # "" /\ ~(err \in {"EBADF", "EPIPE"}
                            \/ s.do_send[c].retries = 0)
    THEN [s EXCEPT !.do_send[c] = [pc |-> "paused", retries |-> @.retries - 1]]
    ELSE IF err = "" /\ sent > 0
    THEN [s EXCEPT !.do_send[c] = [pc |-> "running", retries |-> RETRIES],
                   !.conn[c].send_buffer = <<>>]
    ELSE [close(s, c) EXCEPT
             !.conn[c].is_sending_data = FALSE,
             !.do_send[c] = [pc |-> "idle", retries |-> RETRIES]]

\* _do_send retrying after every error
_do_send_retries_all(s, c, sent, err) ==
    IF s.conn[c].send_buffer = <<>>
    THEN [s EXCEPT !.conn[c].is_sending_data = FALSE,
                   !.do_send[c] = [pc |-> "idle", retries |-> RETRIES]]
    ELSE IF err # "" /\ s.do_send[c].retries # 0
    THEN [s EXCEPT !.do_send[c] = [pc |-> "paused", retries |-> @.retries - 1]]
    ELSE IF err = "" /\ sent > 0
    THEN [s EXCEPT !.do_send[c] = [pc |-> "running", retries |-> RETRIES],
                   !.conn[c].send_buffer = SubSeq(@, sent + 1, Len(@))]
    ELSE [close(s, c) EXCEPT
             !.conn[c].is_sending_data = FALSE,
             !.do_send[c] = [pc |-> "idle", retries |-> RETRIES]]

\* _do_send clearing is_sending_data before it pauses
_do_send_clears_on_pause(s, c, sent, err) ==
    IF s.conn[c].send_buffer = <<>>
    THEN [s EXCEPT !.conn[c].is_sending_data = FALSE,
                   !.do_send[c] = [pc |-> "idle", retries |-> RETRIES]]
    ELSE IF err # "" /\ ~(err \in {"EBADF", "EPIPE"}
                            \/ s.do_send[c].retries = 0)
    THEN [s EXCEPT !.do_send[c] = [pc |-> "paused", retries |-> @.retries - 1],
                   !.conn[c].is_sending_data = FALSE]
    ELSE IF err = "" /\ sent > 0
    THEN [s EXCEPT !.do_send[c] = [pc |-> "running", retries |-> RETRIES],
                   !.conn[c].send_buffer = SubSeq(@, sent + 1, Len(@))]
    ELSE [close(s, c) EXCEPT
             !.conn[c].is_sending_data = FALSE,
             !.do_send[c] = [pc |-> "idle", retries |-> RETRIES]]

\* _do_send without the reset of retries after a send that returned
_do_send_keeps_count(s, c, sent, err) ==
    IF s.conn[c].send_buffer = <<>>
    THEN [s EXCEPT !.conn[c].is_sending_data = FALSE,
                   !.do_send[c] = [pc |-> "idle", retries |-> RETRIES]]
    ELSE IF err # "" /\ ~(err \in {"EBADF", "EPIPE"}
                            \/ s.do_send[c].retries = 0)
    THEN [s EXCEPT !.do_send[c] = [pc |-> "paused", retries |-> @.retries - 1]]
    ELSE IF err = "" /\ sent > 0
    THEN [s EXCEPT !.do_send[c].pc = "running",
                   !.conn[c].send_buffer = SubSeq(@, sent + 1, Len(@))]
    ELSE [close(s, c) EXCEPT
             !.conn[c].is_sending_data = FALSE,
             !.do_send[c] = [pc |-> "idle", retries |-> RETRIES]]

\* one pass of the loop of ClientConnection._do_send, sock.send having
\* returned sent or raised err; the loop ends when the buffer is empty
_do_send(s, c, sent, err) ==
    IF s.conn[c].send_buffer = <<>>
    THEN [s EXCEPT !.conn[c].is_sending_data = FALSE,
                   !.do_send[c] = [pc |-> "idle", retries |-> RETRIES]]
    ELSE IF err # "" /\ ~(err \in {"EBADF", "EPIPE"}
                            \/ s.do_send[c].retries = 0)
    THEN [s EXCEPT !.do_send[c] = [pc |-> "paused", retries |-> @.retries - 1]]
    ELSE IF err = "" /\ sent > 0
    THEN [s EXCEPT !.do_send[c] = [pc |-> "running", retries |-> RETRIES],
                   !.conn[c].send_buffer = SubSeq(@, sent + 1, Len(@))]
    ELSE [close(s, c) EXCEPT
             !.conn[c].is_sending_data = FALSE,
             !.do_send[c] = [pc |-> "idle", retries |-> RETRIES]]

\* the reactor runs the oldest callback, a flush: _do_send up to its loop
DoSendStart ==
    /\ Idle
    /\ callbacks # <<>>
    /\ Head(callbacks).cb = "_do_send"
    /\ LET c == Head(callbacks).conn
       IN  Becomes([St EXCEPT
                      !.callbacks = Tail(@),
                      !.do_send[c] = [pc |-> "running", retries |-> RETRIES]])

\* what sock.send does with the buffer (environment): a closed socket
\* raises EBADF, one whose peer is gone may raise EPIPE, any other accepts
\* some of the bytes or raises EAGAIN
SendAccepts(c, sent) ==
    /\ sock[c].closed = 0
    /\ sent \in 1..Len(conn[c].send_buffer)

SendRaises(c, err) ==
    \/ err = "EBADF" /\ sock[c].closed > 0
    \/ err = "EPIPE" /\ sock[c].closed = 0 /\ sock[c].eof
    \/ err = "EAGAIN" /\ sock[c].closed = 0

\* one pass of the loop of _do_send, at its start or after reactor.pause
DoSendPass(c, sent, err) ==
    /\ do_send[c].pc = "running" \/ (Idle /\ do_send[c].pc = "paused")
    /\ \/ conn[c].send_buffer = <<>> /\ sent = 0 /\ err = ""
       \/ conn[c].send_buffer # <<>> /\ err = "" /\ SendAccepts(c, sent)
       \/ conn[c].send_buffer # <<>> /\ sent = 0 /\ SendRaises(c, err)
    /\ LET s == [St EXCEPT
                   !.sock[c].sent = @ \o SubSeq(conn[c].send_buffer, 1, sent),
                   !.sock[c].errors = IF err = "EAGAIN" THEN @ + 1 ELSE @,
                   !.sock[c].streak = IF err = "EAGAIN" THEN @ + 1
                                      ELSE IF sent > 0 THEN 0 ELSE @]
       IN  Becomes(_do_send(s, c, sent, err))

(***************************************************************************)
(* Spec: the router.  Clients write whole requests, number them in the     *)
(* order they write them, and every read returns all that was written.     *)
(* No request of RouterRequests subscribes: the subscription timer is      *)
(* never started and no output handler is registered with the gcode        *)
(* module.  SpecSub and SpecPush have the requests that subscribe.         *)
(***************************************************************************)
RouterRequests(id) ==
    {Frame(id, "list_endpoints", ArgsNone),
     Frame(id, "emergency_stop", ArgsNone),
     Frame(id, "no/such/path", ArgsNone),
     Frame(id, "objects/subscription", ArgsNone),
     Frame(id, "objects/status", ArgsList)}

Next ==
    \/ Accept(MaxConns)
    \/ \E c \in Conns : \E frame \in RouterRequests(Written(c) + 1) :
           ClientWrite(c, frame, MaxFrames)
    \/ \E c \in Conns : ClientClose(c)
    \/ \E c \in Conns : ProcessReceived(c, Len(sock[c].inbox))
    \/ \E c \in Conns : ProcessReceivedError(c)
    \/ ProcessRequest
    \/ DoSendStart
    \/ \E c \in Conns : \E err \in {"", "EBADF", "EPIPE"} :
           DoSendPass(c, IF err = "" THEN Len(conn[c].send_buffer) ELSE 0,
                      err)
    \/ \E c \in Conns :
           TotalErrors < MaxSendErrors /\ DoSendPass(c, 0, "EAGAIN")
    \/ Disconnect
    \/ Ready
    \/ Restart

Spec == Init /\ [][Next]_vars


(***************************************************************************)
(* Properties of the router.                                               *)
(***************************************************************************)
\* the messages of a sequence of sent bytes, in order
Messages(bytes) ==
    LET heads == SelectSeq(bytes, LAMBDA b: b.b = "head")
    IN  [i \in DOMAIN heads |-> heads[i].m]

\* the responses to requests among them
Responses(bytes) ==
    SelectSeq(Messages(bytes), LAMBDA m: m.method = "response")

Last(seq) == seq[Len(seq)]

\* C1: every request _process_request ran has exactly one response enqueued
\* on the connection it arrived on, with its id, in the order the requests
\* ran; the payload is the error dict when the handler raised, else the
\* value the handler set, else the literal "ok".
C1_OneResponse ==
    \A c \in Conns :
        LET msgs == Responses(hist[c].enqueued)
            handled == hist[c].handled
        IN  /\ Len(msgs) = Len(handled)
            /\ \A i \in DOMAIN handled :
                  /\ handled[i].wr.client_conn = c
                  /\ msgs[i].method = "response"
                  /\ msgs[i].request_id = handled[i].wr.id
                  /\ msgs[i].response =
                        IF handled[i].exc # ""
                        THEN to_dict(msgs[i].response.message)
                        ELSE IF handled[i].response = None
                        THEN Ok
                        ELSE handled[i].response

\* a connection has answered a request whose handler raised an error that is
\* no command error and one whose handler set nothing
C1_Witness ==
    \E c \in Conns : \E i, j \in DOMAIN hist[c].handled :
        /\ hist[c].handled[i].exc = "Exception"
        /\ hist[c].handled[j].exc = ""
        /\ hist[c].handled[j].response = None
        /\ Len(Responses(hist[c].enqueued)) = 2

\* a step in which _process_request ran on connection c
Handles(c) == hist'[c].handled # hist[c].handled

\* C2: a handler raising the command error gives an error response and no
\* call of invoke_shutdown; a handler raising any other error gives an error
\* response and exactly one call of invoke_shutdown.
C2_Step ==
    \A c \in Conns :
        Handles(c) =>
            LET h == Last(hist'[c].handled)
                msg == Last(Messages(hist'[c].enqueued))
            IN  /\ h.exc = "CommandError" =>
                      /\ msg.request_id = h.wr.id
                      /\ msg.response.t = "WebRequestError"
                      /\ shutdown_msgs' = shutdown_msgs
                /\ h.exc = "Exception" =>
                      /\ msg.request_id = h.wr.id
                      /\ msg.response.t = "WebRequestError"
                      /\ shutdown_msgs' =
                            Append(shutdown_msgs,
                                   "Internal Error on WebRequest")

C2_ShutdownOnlyOnOtherErrors == [][C2_Step]_vars

\* one handler raised the command error and one raised another error, and
\* the host was shut down once
C2_Witness ==
    /\ \E c \in Conns : \E i \in DOMAIN hist[c].handled :
           /\ hist[c].handled[i].exc = "CommandError"
           /\ hist[c].handled[i].wr.path \in endpoints
    /\ \E c \in Conns : \E i \in DOMAIN hist[c].handled :
           hist[c].handled[i].exc = "Exception"
    /\ shutdown_msgs = <<"Internal Error on WebRequest">>

\* C3: a request for a path without a handler gives an error response of
\* kind WebRequestError on the requesting connection alone; no handler
\* runs, the host is not shut down, the connection stays as open as it was
\* and the endpoint table stays as it was.
C3_Step ==
    \A c \in Conns :
        (Handles(c) /\ Last(hist'[c].handled).wr.path \notin endpoints) =>
            LET h == Last(hist'[c].handled)
                msg == Msg("response", EmptyDict, "result", h.wr.id,
                           to_dict("No registered callback for path"))
            IN  /\ hist'[c].enqueued =
                      hist[c].enqueued \o json_dumps(msg) \o <<OutETX>>
                /\ conn'[c].send_buffer =
                      conn[c].send_buffer \o json_dumps(msg) \o <<OutETX>>
                /\ \A d \in Conns \ {c} :
                      conn'[d] = conn[d] /\ hist'[d] = hist[d]
                /\ conn'[c].fd_handle = conn[c].fd_handle
                /\ clients' = clients
                /\ UNCHANGED <<endpoints, shutdown_msgs, gcode_clients,
                               is_registered, ready, timer_started,
                               subscription_timer, available_objects,
                               subscriptions, status_clients, sock>>

C3_UnregisteredPath == [][C3_Step]_vars

\* of two open connections one asked for a path without a handler and has
\* its response, the other has none
C3_Witness ==
    \E c, d \in Conns :
        /\ c # d
        /\ conn[c].fd_handle = "fd" /\ conn[d].fd_handle = "fd"
        /\ \E i \in DOMAIN hist[c].handled :
               hist[c].handled[i].wr.path \notin endpoints
        /\ hist[c].enqueued # <<>>
        /\ hist[d].enqueued = <<>>

\* the fields of a state other than the count of the calls of close()
Effect(s) == [s EXCEPT !.hist = [c \in DOMAIN @ |-> [@[c] EXCEPT !.closes = 0]]]

\* what close() must have left of connection c
Closed(c) ==
    /\ conn[c].fd_handle = "None"
    /\ sock[c].unregistered = 1
    /\ sock[c].closed = 1
    /\ c \notin clients

\* C8: a second close() changes nothing; the socket of a closed connection
\* was deregistered once and closed once and the listener has dropped it; a
\* connection not closed was never deregistered nor closed; a closed
\* connection stays closed.
C8_State ==
    \A c \in Conns :
        /\ Effect(close(close(St, c), c)) = Effect(close(St, c))
        /\ is_closed(St, c) => Closed(c)
        /\ ~is_closed(St, c) =>
              sock[c].unregistered = 0 /\ sock[c].closed = 0
        /\ hist[c].closes > 0 => is_closed(St, c)

C8_Step ==
    /\ C8_State
    /\ C8_State'
    /\ \A c \in Conns : is_closed(St, c) => is_closed(St, c)'

C8_CloseIdempotent == [][C8_Step]_vars

\* close() was called twice on a connection
C8_Witness ==
    \E c \in Conns : hist[c].closes >= 2 /\ Closed(c)


(***************************************************************************)
(* SpecFlush: the flush.  sock.send accepts any part of the buffer or      *)
(* fails in any way, at every pass.                                        *)
(***************************************************************************)
FlushRequests(id) ==
    {Frame(id, "list_endpoints", ArgsNone),
     Frame(id, "no/such/path", ArgsNone)}

NextFlush ==
    \/ Accept(MaxFlushConns)
    \/ \E c \in Conns : \E frame \in FlushRequests(Written(c) + 1) :
           ClientWrite(c, frame, MaxFlushFrames)
    \/ \E c \in Conns : ClientClose(c)
    \/ \E c \in Conns : ProcessReceived(c, Len(sock[c].inbox))
    \/ ProcessRequest
    \/ DoSendStart
    \/ \E c \in Conns : \E sent \in 0..Len(conn[c].send_buffer) :
           DoSendPass(c, sent, "")
    \/ \E c \in Conns : \E err \in {"EBADF", "EPIPE", "EAGAIN"} :
           DoSendPass(c, 0, err)
    \/ Disconnect

SpecFlush == Init /\ [][NextFlush]_vars

IsPrefix(a, b) == Len(a) <= Len(b) /\ a = SubSeq(b, 1, Len(a))

\* C7: the bytes handed to the socket of a connection are a prefix of the
\* bytes enqueued on it, in the order they were enqueued, and the bytes
\* still in the buffer are exactly the rest.
C7_SentInOrder ==
    \A c \in Conns :
        /\ IsPrefix(sock[c].sent, hist[c].enqueued)
        /\ sock[c].sent \o conn[c].send_buffer = hist[c].enqueued

\* the flush is in reactor.pause after a partial send, and send() was called
\* during the pause: the rest of the first message and the second message
\* are in the buffer
C7_Witness ==
    \E c \in Conns :
        /\ hist[c].late_sends > 0
        /\ do_send[c].pc = "paused"
        /\ Len(sock[c].sent) = 1
        /\ Len(conn[c].send_buffer) = 5


(***************************************************************************)
(* SpecFrame: the framing.  The peer writes frames that decode and frames  *)
(* that do not; every read returns any part of what was written.           *)
(***************************************************************************)
StreamFrames(id) ==
    {Frame(id, "list_endpoints", ArgsNone),
     MethodFrame(id, "list_endpoints", ArgsNone),
     <<Byte("id", id), Byte("path", PathIndex("info"))>>,
     <<Junk>>,
     <<>>}

NextFrame ==
    \/ Accept(MaxStreamConns)
    \/ \E c \in Conns : \E frame \in StreamFrames(Written(c) + 1) :
           ClientWrite(c, frame, MaxStreamFrames)
    \/ \E c \in Conns : ClientClose(c)
    \/ \E c \in Conns : \E n \in 0..Len(sock[c].inbox) : ProcessReceived(c, n)
    \/ ProcessRequest
    \/ DoSendStart
    \/ \E c \in Conns : \E err \in {"", "EBADF"} :
           DoSendPass(c, IF err = "" THEN Len(conn[c].send_buffer) ELSE 0,
                      err)

SpecFrame == Init /\ [][NextFrame]_vars

\* C4: however the stream was cut into reads, the frames extracted and the
\* bytes kept are those of one read of the whole stream: the segments
\* before each terminator in order, and the segment after the last one.
C4_Framing ==
    \A c \in Conns :
        split(hist[c].received) = hist[c].frames \o <<conn[c].partial_data>>

\* two requests of three bytes each arrived in three reads: one read at
\* least ended inside a frame
C4_Witness ==
    \E c \in Conns :
        /\ hist[c].reads = 3
        /\ Len(hist[c].received) = 8
        /\ Len(hist[c].frames) = 2
        /\ \A i \in 1..2 : Len(hist[c].frames[i]) = 3

\* a frame decodes into a request
Decodes(c, frame) ==
    /\ json_loads_byteified(frame).ok
    /\ WebRequest(c, json_loads_byteified(frame).obj).ok

\* the requests of connection c handed to the reactor: those that ran, then
\* those that wait
Dispatched(c) ==
    LET waiting == SelectSeq(callbacks,
                      LAMBDA cb: cb.cb = "_process_request" /\ cb.conn = c)
    IN  [i \in DOMAIN hist[c].handled |-> hist[c].handled[i].wr]
            \o [i \in DOMAIN waiting |-> waiting[i].wr]

\* the terminated frames of the stream received on connection c
StreamOf(c) ==
    LET segs == split(hist[c].received)
    IN  SubSeq(segs, 1, Len(segs) - 1)

\* C5: the requests dispatched are the frames that decode, in the order of
\* the stream, whatever frames fail to decode between them; a frame that
\* fails gets no response, leaves the bytes kept for the next read as they
\* are, and does not close the connection (it closes at the end of the
\* stream only).
C5_BadFrameDropped ==
    \A c \in Conns :
        LET good == SelectSeq(StreamOf(c), LAMBDA f: Decodes(c, f))
        IN  /\ Dispatched(c) =
                  [i \in DOMAIN good |->
                      WebRequest(c, json_loads_byteified(good[i]).obj)]
            /\ Len(Messages(hist[c].enqueued)) = Len(hist[c].handled)
            /\ conn[c].partial_data = Last(split(hist[c].received))
            /\ is_closed(St, c) => sock[c].eof

\* a request, a frame that fails to decode and a second request arrived in
\* one read; both requests ran and the connection is open
C5_Witness ==
    \E c \in Conns :
        /\ hist[c].reads = 1
        /\ Len(StreamOf(c)) = 3
        /\ Decodes(c, StreamOf(c)[1])
        /\ ~Decodes(c, StreamOf(c)[2])
        /\ Decodes(c, StreamOf(c)[3])
        /\ Len(hist[c].handled) = 2
        /\ ~is_closed(St, c)

\* a decoded object with the keys method / params read as path / args
AsPathArgs(obj) ==
    [key \in {IF k = "method" THEN "path"
              ELSE IF k = "params" THEN "args" ELSE k : k \in DOMAIN obj} |->
        IF key = "path" /\ "method" \in DOMAIN obj THEN obj["method"]
        ELSE IF key = "args" /\ "params" \in DOMAIN obj THEN obj["params"]
        ELSE obj[key]]

\* a frame is a request with the keys id / path / args or id / method /
\* params
IsRequest(c, frame) ==
    /\ json_loads_byteified(frame).ok
    /\ WebRequest(c, AsPathArgs(json_loads_byteified(frame).obj)).ok

\* C6: a request with the keys id / method / params is dispatched like the
\* request with the keys id / path / args: the requests dispatched are the
\* frames that are requests under either naming, and each that ran has its
\* one response.
C6_MethodParamsAccepted ==
    \A c \in Conns :
        LET reqs == SelectSeq(StreamOf(c), LAMBDA f: IsRequest(c, f))
        IN  /\ Dispatched(c) =
                  [i \in DOMAIN reqs |->
                      WebRequest(c,
                          AsPathArgs(json_loads_byteified(reqs[i]).obj))]
            /\ Len(Messages(hist[c].enqueued)) = Len(hist[c].handled)


(***************************************************************************)
(* SpecSub: the subscription engine.  Clients send subscription requests   *)
(* before and after the host is ready and across restart requests, and     *)
(* the subscription timer they start runs when it is due.                  *)
(***************************************************************************)
\* the argument maps of the subscription requests: dicts of lists of names
SubArgs == {ArgsTable[i] : i \in 3..Len(ArgsTable)}

SubRequests(id) == {Frame(id, "objects/subscription", a) : a \in SubArgs}

NextSub ==
    \/ Accept(MaxSubConns)
    \/ \E c \in Conns : \E frame \in SubRequests(Written(c) + 1) :
           ClientWrite(c, frame, MaxSubRequests)
    \/ \E c \in Conns : ProcessReceived(c, Len(sock[c].inbox))
    \/ ProcessRequest
    \/ DoSendStart
    \/ \E c \in Conns : DoSendPass(c, Len(conn[c].send_buffer), "")
    \/ Ready
    \/ Restart
    \/ \E order \in Orders(DOMAIN status_clients) : Tick(order, MaxPushes)

SpecSub == Init /\ [][NextSub]_vars

\* a subscription table with its lists seen as sets; {} is all fields
FieldSets(table) == [n \in DOMAIN table |-> SetOfList(table[n])]

\* the fields of StatusHandler that add_subscripton reads and writes
Engine ==
    [available_objects |-> available_objects,
     subscriptions |-> subscriptions,
     timer_started |-> timer_started,
     subscription_timer |-> subscription_timer]

\* the states add_subscripton(new_sub) can leave from state s, one for
\* every order in which the build can iterate the sets
Merged(s, new_sub) ==
    {add_subscripton(s, new_sub, set_order) : set_order \in SetOrders}

\* the subscription tables add_subscripton(new_sub) can leave from state s
Subscribed(s, new_sub) == {t.subscriptions : t \in Merged(s, new_sub)}

\* C9: seen as field sets, the merge of two requests gives the same table
\* in either order and the merge of a request already merged changes
\* nothing, in whatever orders the build iterates the sets; for an object of the catalog, the empty list in the request or
\* in the table gives the empty list, and two lists give the union of the
\* table's fields and the request's valid fields.
C9_MergeCommutesIdempotent ==
    LET first == [i \in 3..Len(ArgsTable) |-> Merged(Engine, ArgsTable[i])]
    IN
    \A i \in 3..Len(ArgsTable) :
        \A sa \in first[i] :
        LET a == ArgsTable[i]
            old == subscriptions
            new == sa.subscriptions
        IN  /\ \A j \in (i + 1)..Len(ArgsTable) :
                   \A sb \in first[j] :
                       \A ab \in Subscribed(sa, ArgsTable[j]),
                          ba \in Subscribed(sb, a) :
                           FieldSets(ab) = FieldSets(ba)
            /\ \A aa \in Subscribed(sa, a) : FieldSets(aa) = FieldSets(new)
            /\ \A n \in DOMAIN a.subs \cap DOMAIN available_objects :
                   LET valid == SetOfList(a.subs[n])
                                   \cap SetOfList(available_objects[n])
                   IN  /\ a.subs[n] = <<>> => new[n] = <<>>
                       /\ (n \in DOMAIN old /\ old[n] = <<>>) =>
                              new[n] = <<>>
                       /\ (n \in DOMAIN old /\ old[n] # <<>>
                             /\ a.subs[n] # <<>>) =>
                              SetOfList(new[n]) =
                                  SetOfList(old[n]) \cup valid

\* two requests with a list for toolhead ran while the host was ready and
\* the table holds the union of their valid fields
C9_Witness ==
    \E c \in Conns :
        /\ Len(hist[c].handled) = 2
        /\ hist[c].handled[1].wr.args.subs = [toolhead |-> <<"position">>]
        /\ hist[c].handled[2].wr.args.subs =
               [toolhead |-> <<"speed", "temp">>, fan |-> <<"temp">>]
        /\ FieldSets(subscriptions) = [toolhead |-> {"position", "speed"}]

\* the objects of a request that add_subscripton passes over: those not in
\* the catalog and those with names none of which the catalog lists
Skipped(a) ==
    {n \in DOMAIN a.subs :
        \/ n \notin DOMAIN available_objects
        \/ /\ a.subs[n] # <<>>
           /\ SetOfList(a.subs[n]) \cap SetOfList(available_objects[n]) = {}}

\* the request without the objects passed over
Without(a, names) ==
    Args(a.kind, [n \in DOMAIN a.subs \ names |-> a.subs[n]],
         a.has_tmpl, a.tmpl)

\* C10: the objects passed over get no entry and keep the entry they have;
\* the table after the request is the table after the request without
\* them; every stored name is in the catalog and every stored field is a
\* field the catalog lists for it.
C10_UnknownSkipped ==
    /\ \A a \in SubArgs, set_order \in SetOrders :
           LET new == add_subscripton(Engine, a, set_order).subscriptions
           IN  /\ \A n \in Skipped(a) :
                      IF n \in DOMAIN subscriptions
                      THEN n \in DOMAIN new /\ new[n] = subscriptions[n]
                      ELSE n \notin DOMAIN new
               /\ new = add_subscripton(Engine, Without(a, Skipped(a)),
                                        set_order).subscriptions
               /\ \A n \in DOMAIN new :
                      /\ n \in DOMAIN available_objects
                      /\ SetOfList(new[n])
                             \subseteq SetOfList(available_objects[n])
    /\ \A n \in DOMAIN subscriptions :
           /\ n \in DOMAIN available_objects
           /\ SetOfList(subscriptions[n])
                  \subseteq SetOfList(available_objects[n])

\* a request naming a valid and an unknown field of toolhead, only an
\* unknown field of fan, ran while the host was ready, and one naming an
\* object that is not in the catalog
C10_Witness ==
    \E c \in Conns :
        /\ Len(hist[c].handled) = 2
        /\ hist[c].handled[1].wr.args.subs =
               [toolhead |-> <<"speed", "temp">>, fan |-> <<"temp">>]
        /\ hist[c].handled[2].wr.args.subs =
               [fan |-> <<"speed">>, extruder |-> <<"temp">>]
        /\ subscriptions = [toolhead |-> <<"speed">>, fan |-> <<"speed">>]


(***************************************************************************)
(* SpecPush: the pushes.  Clients subscribe to the status and to the gcode *)
(* output, with and without a response template, and close; the host       *)
(* becomes ready and restarts; the subscription timer runs when it is due  *)
(* and the gcode module calls the output handler registered with it.       *)
(***************************************************************************)
PushRequests(id) ==
    {Frame(id, "objects/subscription", ArgsTable[3]),
     Frame(id, "objects/subscription", ArgsTable[4]),
     Frame(id, "objects/subscription", ArgsTable[9]),
     Frame(id, "subscribe_gcode_output", ArgsTable[9])}

NextPush ==
    \/ Accept(MaxPushConns)
    \/ \E c \in Conns : \E frame \in PushRequests(Written(c) + 1) :
           ClientWrite(c, frame, MaxPushRequests)
    \/ \E c \in Conns : ClientClose(c)
    \/ \E c \in Conns : ProcessReceived(c, Len(sock[c].inbox))
    \/ ProcessRequest
    \/ DoSendStart
    \/ \E c \in Conns : \E err \in {"", "EBADF"} :
           DoSendPass(c, IF err = "" THEN Len(conn[c].send_buffer) ELSE 0,
                      err)
    \/ Ready
    \/ Restart
    \/ \E order \in Orders(DOMAIN status_clients) : Tick(order, MaxPushes)
    \/ \E order \in Orders(DOMAIN gcode_clients) :
           GcodeOutput(order, "ok", MaxOutputs)

SpecPush == Init /\ [][NextPush]_vars

\* a step in which _handle_subscription_request ran on connection c and
\* returned
Subscribes(c) ==
    /\ Handles(c)
    /\ Last(hist'[c].handled).wr.path = "objects/subscription"
    /\ Last(hist'[c].handled).exc = ""

\* C11: a subscription request leaves the subscription timer running, also
\* when a restart request has stopped it before.
C11_Step ==
    \A c \in Conns : Subscribes(c) => subscription_timer' # "NEVER"

C11_TimerRestarts == [][C11_Step]_vars

\* a step of the subscription timer: a status message was enqueued or a
\* client forgotten, and no request ran
Ticks ==
    /\ \A c \in Conns : ~Handles(c)
    /\ \/ status_clients' # status_clients
       \/ \E c \in Conns :
              /\ hist'[c].enqueued # hist[c].enqueued
              /\ Last(Messages(hist'[c].enqueued)).pkey = "status"

\* C12: a tick forgets the closed connections of the table of clients and
\* enqueues nothing on them; on every open one it enqueues one message,
\* the status of the subscription table under the key status in a copy of
\* the template of the connection; the templates kept are unchanged and
\* nothing is enqueued on a connection that is not in the table.
C12_Step ==
    Ticks =>
        LET status == _process_status_request(St, subscriptions)
        IN  /\ \A c \in DOMAIN status_clients :
                   IF is_closed(St, c)
                   THEN /\ c \notin DOMAIN status_clients'
                        /\ hist'[c].enqueued = hist[c].enqueued
                        /\ conn'[c] = conn[c]
                   ELSE /\ c \in DOMAIN status_clients'
                        /\ status_clients'[c] = status_clients[c]
                        /\ hist'[c].enqueued =
                               hist[c].enqueued
                                 \o json_dumps(Msg("", status_clients[c],
                                                   "status", 0, status))
                                 \o <<OutETX>>
                        /\ conn'[c].send_buffer =
                               conn[c].send_buffer
                                 \o json_dumps(Msg("", status_clients[c],
                                                   "status", 0, status))
                                 \o <<OutETX>>
            /\ DOMAIN status_clients' \subseteq DOMAIN status_clients
            /\ \A c \in Conns \ DOMAIN status_clients :
                   hist'[c].enqueued = hist[c].enqueued
            /\ subscriptions' = subscriptions

C12_TickPushesOpen == [][C12_Step]_vars

\* a tick has run with two subscribed connections, one of them closed: the
\* closed one is forgotten, the open one has its template and one push
C12_Witness ==
    \E c, d \in Conns :
        /\ c # d
        /\ ~is_closed(St, c) /\ is_closed(St, d)
        /\ DOMAIN status_clients = {c}
        /\ status_clients[c] = [id |-> 5]
        /\ Len(hist[d].handled) = 1
        /\ Pushed(c) = 1 /\ Pushed(d) = 0
        /\ ready


(***************************************************************************)
(* Properties of the shutdown, under Spec.                                 *)
(***************************************************************************)
\* C13: the disconnect event closes every connection of the table, once
\* and while the listening socket is still registered, leaves the ones
\* closed before as they are, empties the table and deregisters the
\* listening socket; the table stays empty afterwards.
C13_Step ==
    /\ (listening /\ ~listening') =>
           /\ clients' = {}
           /\ \A c \in Conns :
                  /\ conn'[c].fd_handle = "None"
                  /\ sock'[c].unregistered = 1
                  /\ sock'[c].closed = 1
                  /\ hist'[c].before_listener
                  /\ IF c \in clients
                     THEN /\ conn[c].fd_handle = "fd"
                          /\ hist'[c].closes = hist[c].closes + 1
                     ELSE /\ conn'[c] = conn[c]
                          /\ sock'[c] = sock[c]
                          /\ hist'[c] = hist[c]
    /\ ~listening' =>
           /\ clients' = {}
           /\ \A c \in DOMAIN conn' : conn'[c].fd_handle = "None"

C13_DisconnectClosesAll == [][C13_Step]_vars

\* the host has shut down with two connections accepted, one closed before
\* by the end of its stream and one closed by the shutdown
C13_Witness ==
    \E c, d \in Conns :
        /\ ~listening
        /\ sock[c].eof /\ sock[c].inbox = <<>> /\ hist[c].closes = 1
        /\ ~sock[d].eof /\ hist[d].closes = 1
        /\ clients = {}


(***************************************************************************)
(* Properties of the catalog and of the sentinel, under SpecSub.           *)
(***************************************************************************)
\* C14: while the host is not ready the catalog is empty: objects/list
\* answers with no object and a subscription request adds nothing to the
\* subscription table.
C14_CatalogCleared ==
    ~ready =>
        /\ available_objects = EmptyDict
        /\ _handle_object_request(St, NoRequest).wr.response =
               Value({}, EmptyDict, "")
        /\ \A a \in SubArgs : Subscribed(Engine, a) = {subscriptions}

\* C18: an entry of the subscription table that is the empty list, all
\* fields, is the empty list after every step: no request, ready event or
\* restart request narrows or removes it.
C18_Step ==
    \A n \in DOMAIN subscriptions :
        subscriptions[n] = <<>> =>
            /\ n \in DOMAIN subscriptions'
            /\ subscriptions'[n] = <<>>

C18_SentinelStays == [][C18_Step]_vars

\* the entry of toolhead was the empty list when a request naming one field
\* of toolhead ran, and the host has restarted since
C18_Witness ==
    \E c \in Conns :
        /\ Len(hist[c].handled) = 2
        /\ hist[c].handled[1].wr.args = ArgsTable[3]
        /\ hist[c].handled[2].wr.args = ArgsTable[4]
        /\ hist[c].handled[2].exc = ""
        /\ subscriptions = [toolhead |-> <<>>]
        /\ ~ready


(***************************************************************************)
(* Properties of the flush, under SpecFlush.                               *)
(***************************************************************************)
\* the activations of _do_send of c that are registered with the reactor
\* or have started and not returned
Flushes(c) ==
    Len(SelectSeq(callbacks, LAMBDA cb: cb.cb = "_do_send" /\ cb.conn = c))
      + (IF do_send[c].pc = "idle" THEN 0 ELSE 1)

\* C15: a connection has at most one flush registered, running or paused,
\* and has one exactly when is_sending_data is set: send() during a flush
\* registers no second one.
C15_OneFlush ==
    \A c \in Conns :
        /\ Flushes(c) <= 1
        /\ conn[c].is_sending_data <=> Flushes(c) = 1

\* send() has run twice while the flush registered by the first call had
\* not started
C15_Witness ==
    \E c \in Conns :
        /\ Len(Messages(hist[c].enqueued)) = 2
        /\ conn[c].send_buffer = hist[c].enqueued
        /\ do_send[c].pc = "idle"
        /\ Flushes(c) = 1

\* a step in which the flush of c called sock.send: it accepted bytes, or
\* failed and the flush paused, or failed and the flush ended
Sends(c) ==
    /\ do_send[c].pc # "idle"
    /\ conn[c].send_buffer # <<>>
    /\ \/ sock'[c].sent # sock[c].sent
       \/ sock'[c].errors # sock[c].errors
       \/ do_send'[c].pc = "idle"

\* the flush of c closed the connection and returned
FlushCloses(c) ==
    /\ conn'[c].fd_handle = "None"
    /\ hist'[c].closes = hist[c].closes + 1
    /\ do_send'[c].pc = "idle"
    /\ ~conn'[c].is_sending_data

\* the step left the connection as open or closed as it was
FlushKeeps(c) ==
    /\ conn'[c].fd_handle = conn[c].fd_handle
    /\ hist'[c].closes = hist[c].closes
    /\ sock'[c].closed = sock[c].closed

\* C16: after a send that accepted bytes the flush goes on and closes
\* nothing; after a retryable failure it pauses and closes nothing while
\* fewer than RETRIES such failures came before it in a row, and closes the
\* connection at the failure after RETRIES of them; after a failure that is
\* not retryable it closes the connection at once.
C16_Step ==
    \A c \in Conns :
        Sends(c) =>
            IF sock'[c].sent # sock[c].sent
            THEN FlushKeeps(c) /\ do_send'[c].pc = "running"
            ELSE IF sock'[c].errors # sock[c].errors
            THEN IF sock[c].streak < RETRIES
                 THEN /\ FlushKeeps(c)
                      /\ do_send'[c].pc = "paused"
                      /\ conn'[c].send_buffer = conn[c].send_buffer
                 ELSE sock[c].streak = RETRIES /\ FlushCloses(c)
            ELSE FlushCloses(c)

C16_RetryBound == [][C16_Step]_vars

\* the socket accepted a part of the buffer, then failed RETRIES + 1 times
\* in a row with a retryable error, and the flush closed the connection
C16_Witness ==
    \E c \in Conns :
        /\ sock[c].streak = RETRIES + 1
        /\ sock[c].sent # <<>>
        /\ ~sock[c].eof
        /\ listening
        /\ conn[c].fd_handle = "None"
        /\ conn[c].send_buffer # <<>>

\* C20: between two callbacks an open connection with bytes in its buffer
\* has is_sending_data set and a flush registered or paused; a step clears
\* is_sending_data only with the buffer empty or the connection closed.
C20_Step ==
    \A c \in Conns :
        /\ ((\A d \in DOMAIN do_send' : do_send'[d].pc # "running")
              /\ conn'[c].fd_handle = "fd"
              /\ conn'[c].send_buffer # <<>>) =>
               /\ conn'[c].is_sending_data
               /\ \/ do_send'[c].pc = "paused"
                  \/ \E i \in DOMAIN callbacks' :
                         /\ callbacks'[i].cb = "_do_send"
                         /\ callbacks'[i].conn = c
        /\ (conn[c].is_sending_data /\ ~conn'[c].is_sending_data) =>
               \/ conn'[c].send_buffer = <<>>
               \/ conn'[c].fd_handle = "None"

C20_NothingStranded == [][C20_Step]_vars

\* an open connection holds bytes enqueued while its flush was paused after
\* a part of the buffer was sent, and the flush is paused again
C20_Witness ==
    \E c \in Conns :
        /\ conn[c].fd_handle = "fd"
        /\ hist[c].late_sends = 1
        /\ do_send[c].pc = "paused"
        /\ sock[c].errors = 2
        /\ Len(sock[c].sent) = 4
        /\ Len(conn[c].send_buffer) = 2
        /\ conn[c].is_sending_data


(***************************************************************************)
(* Properties of the deferred requests of a closed connection, under Spec. *)
(***************************************************************************)
\* a step in which the reactor took the oldest callback, a deferred request
\* of connection c, off its queue
RunsDeferred(c) ==
    /\ callbacks # <<>>
    /\ Head(callbacks).cb = "_process_request"
    /\ Head(callbacks).conn = c
    /\ IsPrefix(Tail(callbacks), callbacks')
    /\ ~IsPrefix(callbacks, callbacks')

\* C19: the deferred request of a connection that is closed when the
\* reactor runs it calls no handler, changes nothing of the router and of
\* the subscription engine, and enqueues nothing on the connection.
C19_Step ==
    \A c \in Conns :
        (RunsDeferred(c) /\ is_closed(St, c)) =>
            /\ hist'[c].handled = hist[c].handled
            /\ hist'[c].enqueued = hist[c].enqueued
            /\ conn'[c] = conn[c]
            /\ UNCHANGED <<endpoints, shutdown_msgs, gcode_clients,
                           is_registered, ready, timer_started,
                           subscription_timer, available_objects,
                           subscriptions, status_clients>>

C19_ClosedRequestsNoOps == [][C19_Step]_vars


(***************************************************************************)
(* SpecLive: the flush on a socket that stays open and accepts at least    *)
(* one byte after at most RETRIES retryable failures in a row.  The        *)
(* reactor runs every callback registered and resumes every paused one.    *)
(***************************************************************************)
\* the reactor runs or resumes the flush of c and sock.send accepts a part
\* of the buffer or fails with a retryable error
LivePass(c) ==
    \/ \E sent \in 0..Len(conn[c].send_buffer) : DoSendPass(c, sent, "")
    \/ sock[c].streak < RETRIES /\ DoSendPass(c, 0, "EAGAIN")

NextLive ==
    \/ Accept(MaxLiveConns)
    \/ \E c \in Conns : \E frame \in FlushRequests(Written(c) + 1) :
           ClientWrite(c, frame, MaxLiveFrames)
    \/ \E c \in Conns : ProcessReceived(c, Len(sock[c].inbox))
    \/ ProcessRequest
    \/ DoSendStart
    \/ \E c \in Conns : LivePass(c)

SpecLive ==
    /\ Init
    /\ [][NextLive]_vars
    /\ WF_vars(ProcessRequest)
    /\ WF_vars(DoSendStart)
    /\ WF_vars(\E c \in Conns : LivePass(c))

\* the flush of c has returned with everything enqueued sent and the
\* connection open
Flushed(c) ==
    /\ c \in Conns
    /\ conn[c].send_buffer = <<>>
    /\ ~conn[c].is_sending_data
    /\ do_send[c].pc = "idle"
    /\ conn[c].fd_handle = "fd"
    /\ sock[c].sent = hist[c].enqueued

\* C17: on such a socket bytes enqueued lead to the flush having returned
\* with the buffer empty, every byte enqueued handed to the socket in
\* order, is_sending_data clear and the connection open.
C17_FlushCompletes ==
    \A c \in 1..MaxLiveConns :
        (c \in Conns /\ conn[c].send_buffer # <<>>) ~> Flushed(c)

\* the flush has returned after the socket took the message one byte at a
\* time with RETRIES retryable failures before each byte
C17_Witness ==
    \E c \in Conns :
        /\ Flushed(c)
        /\ Len(sock[c].sent) = 3
        /\ sock[c].errors = 3 * RETRIES

====
